---------------------------- MODULE Spec2Model ----------------------------
(***************************************************************************)
(* ts-upgrade: the syntax-upgrade transformer (src/src/transformer.ts) and *)
(* the fixed-point driver `upgrade` that runs it pass after pass until a   *)
(* pass makes no replacement.                                              *)
(*                                                                         *)
(* A syntax node is a tuple whose first element is its SyntaxKind.  The    *)
(* document the driver holds is kept as the tree the parser yields for its *)
(* text; getText renders a node to its source text, a token sequence.      *)
(***************************************************************************)
EXTENDS Naturals, Sequences, FiniteSets, TLC

VARIABLES
    code,             \* the argument of the first call of upgrade
    target,           \* the TypeScriptVersion argument
    text,             \* the document (dummy.ts) of the running call
    needAnotherPass,  \* the loop flag of upgrade
    i,                \* the pass counter of upgrade
    pc,               \* "scanning" | "done" | "thrown"
    run,              \* 1: upgrade(code, target); 2: upgrade of its result
    replaced,         \* replacements recorded by the latest pass
    firstPass,        \* replacements recorded by pass 0 of the running call
    result1           \* what the first call returned

vars == <<code, target, text, needAnotherPass, i, pc, run, replaced,
          firstPass, result1>>

-----------------------------------------------------------------------------
(* Syntax nodes *)

Identifier(name) == <<"Identifier", name>>
PrivateIdentifier(name) == <<"PrivateIdentifier", name>>
NullKeyword == <<"NullKeyword">>
NumericLiteral == <<"NumericLiteral", "0">>
StringLiteral == <<"StringLiteral", "\"c\"">>
ParenthesizedExpression(e) == <<"ParenthesizedExpression", e>>
VoidExpression(e) == <<"VoidExpression", e>>
\* questionDot: the node carries a ?. token (a link of an optional chain)
PropertyAccessExpression(e, name, questionDot) ==
    <<"PropertyAccessExpression", e, name, questionDot>>
ElementAccessExpression(e, arg, questionDot) ==
    <<"ElementAccessExpression", e, arg, questionDot>>
CallExpression(e, args, questionDot) ==
    <<"CallExpression", e, args, questionDot>>
BinaryExpression(l, op, r) == <<"BinaryExpression", l, op, r>>
ConditionalExpression(c, t, f) == <<"ConditionalExpression", c, t, f>>

\* an Error thrown while a node was being built, standing where the node would
ThrownError == <<"Error", "invalid cast">>
\* the JavaScript value undefined, as a function's result
undefined == <<"undefined">>

kind(n) == n[1]

isIdentifier(n) == kind(n) = "Identifier"
isPrivateIdentifier(n) == kind(n) = "PrivateIdentifier"
isVoidExpression(n) == kind(n) = "VoidExpression"
isParenthesizedExpression(n) == kind(n) = "ParenthesizedExpression"
isBinaryExpression(n) == kind(n) = "BinaryExpression"
isPropertyAccessExpression(n) == kind(n) = "PropertyAccessExpression"
isElementAccessExpression(n) == kind(n) = "ElementAccessExpression"
isCallExpression(n) == kind(n) = "CallExpression"
isConditionalExpression(n) == kind(n) = "ConditionalExpression"

\* the createXxxChain factories: the access with a ?. token
createPropertyAccessChain(e, name) == PropertyAccessExpression(e, name, TRUE)
createElementAccessChain(e, arg) == ElementAccessExpression(e, arg, TRUE)
createCallChain(e, args) == CallExpression(e, args, TRUE)
createNullishCoalesce(l, r) == BinaryExpression(l, "??", r)

RECURSIVE getText(_)
RECURSIVE getTextOfList(_)
\* node.getText(sourceFile): the node's source text, token by token
getText(n) ==
    CASE kind(n) \in {"Identifier", "PrivateIdentifier", "NumericLiteral",
                        "StringLiteral"} ->
            <<n[2]>>
      [] kind(n) = "NullKeyword" -> <<"null">>
      [] isParenthesizedExpression(n) -> <<"(">> \o getText(n[2]) \o <<")">>
      [] isVoidExpression(n) -> <<"void">> \o getText(n[2])
      [] isPropertyAccessExpression(n) ->
            getText(n[2]) \o <<IF n[4] THEN "?." ELSE ".">> \o getText(n[3])
      [] isElementAccessExpression(n) ->
            getText(n[2]) \o <<IF n[4] THEN "?.[" ELSE "[">>
                \o getText(n[3]) \o <<"]">>
      [] isCallExpression(n) ->
            getText(n[2]) \o <<IF n[4] THEN "?.(" ELSE "(">>
                \o getTextOfList(n[3]) \o <<")">>
      [] isBinaryExpression(n) -> getText(n[2]) \o <<n[3]>> \o getText(n[4])
      [] isConditionalExpression(n) ->
            getText(n[2]) \o <<"?">> \o getText(n[3]) \o <<":">>
                \o getText(n[4])
      [] OTHER -> <<"<error>">>

getTextOfList(ns) ==
    IF ns = <<>> THEN <<>>
    ELSE IF Len(ns) = 1 THEN getText(ns[1])
    ELSE getText(ns[1]) \o <<",">> \o getTextOfList(Tail(ns))

-----------------------------------------------------------------------------
(* utils *)

RECURSIVE skipParens(_)
skipParens(node) ==
    IF isParenthesizedExpression(node) THEN skipParens(node[2]) ELSE node

\* cast(node, isIdentifier): the node, or the Error it throws
castIdentifier(node) == IF isIdentifier(node) THEN node ELSE ThrownError

-----------------------------------------------------------------------------
(* types: the TypeScriptVersion enum, by rank *)

TypeScriptVersion == [v3_6 |-> 0, v3_7 |-> 1]

-----------------------------------------------------------------------------
(* transformer.ts *)

\* a || b on two results that are a node or undefined
orElse(a, b) == IF a # undefined THEN a ELSE b

isChainableExpression(expr) ==
    \/ isPropertyAccessExpression(expr)
    \/ isElementAccessExpression(expr)
    \/ isCallExpression(expr)

isEqualityExpression(left, right) ==
    IF kind(left) # kind(right) THEN FALSE
    ELSE IF isIdentifier(left) /\ isIdentifier(right) /\ left[2] = right[2]
         THEN TRUE
    ELSE getText(left) = getText(right)

doEqualityOrNotToNullCompare(left, operator, right) ==
    IF operator \in {"==", "!="} /\ kind(right) = "NullKeyword"
    THEN left ELSE undefined

doStrictEqualityOrNotToUndefinedCompare(left, operator, right) ==
    IF /\ operator \in {"===", "!=="}
       /\ \/ kind(right) = "UndefinedKeyword"
          \/ (isIdentifier(right) /\ right[2] = "undefined")
    THEN left ELSE undefined

doStrictEqualityOrNotToNullCompare(left, operator, right) ==
    IF operator \in {"===", "!=="} /\ kind(right) = "NullKeyword"
    THEN left ELSE undefined

doStrictEqualityOrNotToVoidExpressionCompare(left, operator, right) ==
    IF operator \in {"===", "!=="} /\ isVoidExpression(right)
    THEN left ELSE undefined

\* cb(left, operator, right), the callback given by its name
callback(cb, left, operator, right) ==
    CASE cb = "doEqualityOrNotToNullCompare" ->
            doEqualityOrNotToNullCompare(left, operator, right)
      [] cb = "doStrictEqualityOrNotToUndefinedCompare" ->
            doStrictEqualityOrNotToUndefinedCompare(left, operator, right)
      [] cb = "doStrictEqualityOrNotToNullCompare" ->
            doStrictEqualityOrNotToNullCompare(left, operator, right)
      [] cb = "doStrictEqualityOrNotToVoidExpressionCompare" ->
            doStrictEqualityOrNotToVoidExpressionCompare(left, operator, right)

binaryCompare(cb, left, operator, right) ==
    orElse(callback(cb, left, operator, right),
           callback(cb, right, operator, left))

isEqualityOrNotToNull(expr) ==
    binaryCompare("doEqualityOrNotToNullCompare",
                  skipParens(expr[2]), expr[3], skipParens(expr[4]))

isStrictEqualityOrNotToUndefined(expr) ==
    binaryCompare("doStrictEqualityOrNotToUndefinedCompare",
                  skipParens(expr[2]), expr[3], skipParens(expr[4]))

isStrictEqualityOrNotToNull(expr) ==
    binaryCompare("doStrictEqualityOrNotToNullCompare",
                  skipParens(expr[2]), expr[3], skipParens(expr[4]))

isStrictEqualityOrNotToVoidExpression(expr) ==
    binaryCompare("doStrictEqualityOrNotToVoidExpressionCompare",
                  skipParens(expr[2]), expr[3], skipParens(expr[4]))

isNullableEqualityExpression(expr) ==
    orElse(isEqualityOrNotToNull(expr),
      orElse(isStrictEqualityOrNotToNull(expr),
        orElse(isStrictEqualityOrNotToUndefined(expr),
               isStrictEqualityOrNotToVoidExpression(expr))))

isBinaryNullableEqualityOrNotExpression(expr) ==
    IF expr[3] # "||" /\ expr[3] # "&&" THEN undefined
    ELSE IF ~isBinaryExpression(expr[2]) \/ ~isBinaryExpression(expr[4])
         THEN undefined
    ELSE LET left == isNullableEqualityExpression(expr[2])
             right == isNullableEqualityExpression(expr[4])
         IN IF /\ left # undefined
               /\ right # undefined
               /\ isEqualityExpression(left, right)
            THEN left ELSE undefined

getNullableConditionTarget(expr) ==
    LET condition == skipParens(expr[2])
    IN IF isBinaryExpression(condition)
       THEN orElse(isNullableEqualityExpression(condition),
              orElse(isBinaryNullableEqualityOrNotExpression(condition),
                     condition))
       ELSE condition

\* The branches of a ConditionalExpression, by reference: line 66 compares
\* nodes by identity, and two nodes of one tree are identical only when they
\* are the same child.
whenTrue == <<"whenTrue">>
whenFalse == <<"whenFalse">>
branch(cond, ref) == IF ref = whenTrue THEN cond[3] ELSE cond[4]

\* the branch the condition guards, or undefined
getNullishTargetBranch(cond) ==
    IF isBinaryExpression(cond[2])
    THEN CASE cond[2][3] \in {"==", "===", "||"} -> whenFalse
           [] cond[2][3] \in {"!=", "!==", "&&"} -> whenTrue
           [] OTHER -> undefined
    ELSE undefined

\* skipParens of the guarded branch (by reference), or undefined
getNullishCondBranch(cond, nullableConditionTarget) ==
    LET tgt == getNullishTargetBranch(cond)
    IN IF tgt = undefined THEN undefined
       ELSE LET left == skipParens(branch(cond, tgt))
                right == skipParens(nullableConditionTarget)
            IN IF isEqualityExpression(left, right) THEN tgt ELSE undefined

RECURSIVE collectChains(_, _)
\* the while loop of getOptionalChains (lines 161-171); <<>> is its
\* `return undefined`
collectChains(expression, chains) ==
    IF isBinaryExpression(expression) /\ expression[3] = "&&"
    THEN IF ~isChainableExpression(expression[4]) THEN <<>>
         ELSE collectChains(expression[2], <<expression[4]>> \o chains)
    ELSE chains

RECURSIVE checkChains(_, _)
\* the for loop of getOptionalChains (lines 175-188), from index idx (1-based)
checkChains(chains, idx) ==
    IF idx > Len(chains) THEN TRUE
    ELSE IF ~isEqualityExpression(chains[idx - 1], chains[idx][2]) THEN FALSE
    ELSE IF /\ isPropertyAccessExpression(chains[idx])
            /\ isPrivateIdentifier(chains[idx][3])
         THEN FALSE
    ELSE checkChains(chains, idx + 1)

\* The chains, or <<>> for undefined: the function never returns an empty
\* array (line 173).
getOptionalChains(expr) ==
    LET chains == collectChains(expr, <<>>)
    IN IF Len(chains) < 1 THEN <<>>
       ELSE IF ~checkChains(chains, 2) THEN <<>>
       ELSE chains

RECURSIVE visitor(_)
RECURSIVE visitEachChild(_)
RECURSIVE visitNodes(_)
RECURSIVE createOptionalChainsFrom(_, _, _)

createOptionalChainByChainableExpression(expr, left) ==
    CASE isPropertyAccessExpression(expr) ->
            createPropertyAccessChain(visitEachChild(left),
                                      castIdentifier(expr[3]))
      [] isElementAccessExpression(expr) ->
            createElementAccessChain(visitEachChild(left),
                                     visitEachChild(expr[3]))
      \* (the programs here have no type arguments)
      [] isCallExpression(expr) ->
            createCallChain(visitEachChild(left), visitNodes(expr[3]))

\* the for loop of createOptionalChains (lines 104-110)
createOptionalChainsFrom(chains, idx, lastChain) ==
    IF idx > Len(chains) THEN lastChain
    ELSE createOptionalChainsFrom(chains, idx + 1,
            createOptionalChainByChainableExpression(chains[idx], lastChain))

\* createOptionalChains with the for loop left out: the first link only
createOptionalChainsFirstLinkOnly(chains) ==
    createOptionalChainByChainableExpression(chains[1], chains[1][2])

createOptionalChains(chains) ==
    LET fistChain == chains[1]
    IN createOptionalChainsFrom(chains, 2,
          createOptionalChainByChainableExpression(fistChain, fistChain[2]))

upgradeBinaryExpression(expr) ==
    LET optionalChains == getOptionalChains(expr)
    IN IF optionalChains # <<>> THEN createOptionalChains(optionalChains)
       ELSE visitEachChild(expr)

upgradeConditionalExpression(expr) ==
    IF target >= TypeScriptVersion.v3_7
    THEN LET nullableConditionTarget == getNullableConditionTarget(expr)
             condBranch == getNullishCondBranch(expr, nullableConditionTarget)
         IN IF nullableConditionTarget # undefined /\ condBranch # undefined
            THEN LET fallbackBranch == IF condBranch = whenTrue
                                       THEN expr[4] ELSE expr[3]
                 IN createNullishCoalesce(
                        visitEachChild(nullableConditionTarget),
                        visitEachChild(fallbackBranch))
            ELSE visitEachChild(expr)
    ELSE visitEachChild(expr)

visitor(node) ==
    CASE isConditionalExpression(node) -> upgradeConditionalExpression(node)
      [] isBinaryExpression(node) -> upgradeBinaryExpression(node)
      [] OTHER -> visitEachChild(node)

\* typescript's visitEachChild: the node with every child visited
visitEachChild(node) ==
    CASE isParenthesizedExpression(node) ->
            ParenthesizedExpression(visitor(node[2]))
      [] isVoidExpression(node) -> VoidExpression(visitor(node[2]))
      [] isPropertyAccessExpression(node) ->
            PropertyAccessExpression(visitor(node[2]), visitor(node[3]), node[4])
      [] isElementAccessExpression(node) ->
            ElementAccessExpression(visitor(node[2]), visitor(node[3]), node[4])
      [] isCallExpression(node) ->
            CallExpression(visitor(node[2]), visitNodes(node[3]), node[4])
      [] isBinaryExpression(node) ->
            BinaryExpression(visitor(node[2]), node[3], visitor(node[4]))
      [] isConditionalExpression(node) ->
            ConditionalExpression(visitor(node[2]), visitor(node[3]),
                                  visitor(node[4]))
      [] OTHER -> node

\* typescript's visitNodes: every node of the list visited
visitNodes(nodes) ==
    IF nodes = <<>> THEN <<>>
    ELSE <<visitor(nodes[1])>> \o visitNodes(Tail(nodes))

-----------------------------------------------------------------------------
(* visitor.ts and changes.ts: one walk of the tree.  Each node the          *)
(* transformer rewrites is recorded as one replacement (old node, new      *)
(* node); a node it leaves alone is walked into.                           *)

RECURSIVE replacements(_)
RECURSIVE replacementsOfList(_)
\* the number of replaceNode calls of one walk from `node`
replacements(node) ==
    IF kind(visitor(node)) # kind(node) THEN 1
    ELSE CASE kind(node) \in {"ParenthesizedExpression", "VoidExpression"} ->
                 replacements(node[2])
           [] kind(node) \in {"PropertyAccessExpression",
                              "ElementAccessExpression"} ->
                 replacements(node[2]) + replacements(node[3])
           [] isCallExpression(node) ->
                 replacements(node[2]) + replacementsOfList(node[3])
           [] isBinaryExpression(node) ->
                 replacements(node[2]) + replacements(node[4])
           [] isConditionalExpression(node) ->
                 replacements(node[2]) + replacements(node[3])
                     + replacements(node[4])
           [] OTHER -> 0

replacementsOfList(nodes) ==
    IF nodes = <<>> THEN 0
    ELSE replacements(nodes[1]) + replacementsOfList(Tail(nodes))

\* visit(sourceFile, checker, changeTracker, target): the document with the
\* recorded changes applied, and how many there were
visit(sourceFile) ==
    [changed |-> visitor(sourceFile), count |-> replacements(sourceFile)]

RECURSIVE throws(_)
RECURSIVE throwsInList(_)
\* an Error was thrown while `node` was being built
throws(node) ==
    CASE kind(node) = "Error" -> TRUE
      [] kind(node) \in {"ParenthesizedExpression", "VoidExpression"} ->
            throws(node[2])
      [] kind(node) \in {"PropertyAccessExpression",
                         "ElementAccessExpression"} ->
            throws(node[2]) \/ throws(node[3])
      [] isCallExpression(node) -> throws(node[2]) \/ throwsInList(node[3])
      [] isBinaryExpression(node) -> throws(node[2]) \/ throws(node[4])
      [] isConditionalExpression(node) ->
            throws(node[2]) \/ throws(node[3]) \/ throws(node[4])
      [] OTHER -> FALSE

throwsInList(nodes) ==
    IF nodes = <<>> THEN FALSE
    ELSE throws(nodes[1]) \/ throwsInList(Tail(nodes))

-----------------------------------------------------------------------------
(* The programs the driver is run on *)

\* the longest && chain: the number of links after the leftmost operand
MaxLinks == 3

a == Identifier("a")
b == Identifier("b")
x == Identifier("x")
undefinedIdentifier == Identifier("undefined")
void0 == VoidExpression(NumericLiteral)

EqualityOperators == {"==", "===", "!=", "!=="}

Operands ==
    {a, b, NullKeyword, undefinedIdentifier, void0, NumericLiteral,
     ParenthesizedExpression(a)}

\* l op r, every operand on either side
Comparisons ==
    {BinaryExpression(l, op, r) :
        l \in Operands, op \in EqualityOperators, r \in Operands}

\* the sides of a compound condition
Sides ==
    {BinaryExpression(l, op, r) :
        l \in {a, b}, op \in EqualityOperators,
        r \in {NullKeyword, undefinedIdentifier}}
    \cup {ParenthesizedExpression(BinaryExpression(a, op, r)) :
        op \in {"===", "!=="}, r \in {NullKeyword, undefinedIdentifier}}
    \cup {BinaryExpression(NullKeyword, "===", a),
          BinaryExpression(a, "!==", void0),
          BinaryExpression(a, "===", NumericLiteral)}

Compounds ==
    {BinaryExpression(l, op, r) : l \in Sides, op \in {"||", "&&"}, r \in Sides}

Conditions ==
    Comparisons \cup Compounds
    \cup {ParenthesizedExpression(c) : c \in
            {BinaryExpression(a, op, NullKeyword) : op \in EqualityOperators}}
    \cup {a, BinaryExpression(a, "+", b)}

Branches == {a, b, ParenthesizedExpression(a)}

\* c ? t : f, and the ternaries one of whose branches repeats the condition
Ternaries ==
    {ConditionalExpression(c, t, f) :
        c \in Conditions, t \in Branches, f \in Branches}
    \cup {ConditionalExpression(c, b, c) : c \in Comparisons}
    \cup {ConditionalExpression(c, c, b) : c \in Comparisons}

LinkKinds == {"property", "private", "element", "call"}

link(k, receiver) ==
    CASE k = "property" ->
            PropertyAccessExpression(receiver, Identifier("b"), FALSE)
      [] k = "private" ->
            PropertyAccessExpression(receiver, PrivateIdentifier("#b"), FALSE)
      [] k = "element" ->
            ElementAccessExpression(receiver, StringLiteral, FALSE)
      [] k = "call" -> CallExpression(receiver, <<>>, FALSE)

RECURSIVE operand(_, _, _, _)
\* Operand j of a chain from `root` with links ks: link j applied to operand
\* j - 1, or, at j = strange, to another receiver.
operand(root, ks, strange, j) ==
    IF j = 0 THEN root
    ELSE link(ks[j], IF j = strange THEN x
                     ELSE operand(root, ks, strange, j - 1))

RECURSIVE andChain(_, _, _, _)
\* e0 && e1 && ... && ej, left-associated
andChain(root, ks, strange, j) ==
    IF j = 0 THEN operand(root, ks, strange, 0)
    ELSE BinaryExpression(andChain(root, ks, strange, j - 1), "&&",
                          operand(root, ks, strange, j))

LinkSeqs == UNION {[1..n -> LinkKinds] : n \in 1..MaxLinks}

\* the leftmost operands: identifiers, and an access
Roots == {a, b, PropertyAccessExpression(b, Identifier("b"), FALSE)}

\* strange = 0: every link continues the operand before it
Chains ==
    {andChain(root, ks, strange, Len(ks)) :
        root \in Roots, ks \in LinkSeqs, strange \in 0..MaxLinks}

\* programs in which one rewritable expression holds or follows another
Nested ==
    LET guards == {BinaryExpression(a, "!=", NullKeyword),
                   BinaryExpression(a, "===", NullKeyword),
                   BinaryExpression(BinaryExpression(a, "!==", NullKeyword),
                       "&&", BinaryExpression(a, "!==", undefinedIdentifier))}
        inner == {ConditionalExpression(BinaryExpression(b, "==", NullKeyword),
                                        x, b),
                  andChain(b, <<"property", "call">>, 0, 2),
                  andChain(b, <<"private">>, 0, 1),
                  andChain(a, <<"property", "property">>, 2, 2)}
        wrap(e) == {e, ParenthesizedExpression(e),
                    ElementAccessExpression(a, e, FALSE),
                    CallExpression(a, <<e, e>>, FALSE),
                    BinaryExpression(e, "&&", b),
                    BinaryExpression(a, "&&",
                        ElementAccessExpression(a, e, FALSE)),
                    BinaryExpression(a, "&&", CallExpression(a, <<e>>, FALSE))}
    IN UNION {wrap(e) : e \in inner}
       \cup UNION {{ConditionalExpression(g, a, w), ConditionalExpression(g, w, a)} :
                      g \in guards, w \in UNION {wrap(e) : e \in inner}}

Programs == Ternaries \cup Chains \cup Nested

Versions == {TypeScriptVersion.v3_6, TypeScriptVersion.v3_7}

-----------------------------------------------------------------------------
(* index.ts: upgrade(code, target) *)

Init ==
    /\ code \in Programs
    /\ target \in Versions
    /\ text = code
    /\ needAnotherPass = TRUE
    /\ i = 0
    /\ pc = "scanning"
    /\ run = 1
    /\ replaced = 0
    /\ firstPass = 0
    /\ result1 = undefined

\* the loop turn with the flag cleared whatever the tracker recorded
PassOnce ==
    /\ pc = "scanning"
    /\ needAnotherPass
    /\ ~throws(visit(text).changed)
    /\ text' = visit(text).changed
    /\ needAnotherPass' = FALSE
    /\ replaced' = visit(text).count
    /\ firstPass' = IF i = 0 THEN visit(text).count ELSE firstPass
    /\ i' = i + 1
    /\ UNCHANGED <<code, target, pc, run, result1>>

\* one turn of the while loop: parse, visit, apply the changes, write back
Pass ==
    /\ pc = "scanning"
    /\ needAnotherPass
    /\ ~throws(visit(text).changed)
    /\ text' = visit(text).changed
    /\ needAnotherPass' = (visit(text).count > 0)
    /\ replaced' = visit(text).count
    /\ firstPass' = IF i = 0 THEN visit(text).count ELSE firstPass
    /\ i' = i + 1
    /\ UNCHANGED <<code, target, pc, run, result1>>

\* a turn of the loop in which the transformer throws: upgrade throws
PassThrows ==
    /\ pc = "scanning"
    /\ needAnotherPass
    /\ throws(visit(text).changed)
    /\ pc' = "thrown"
    /\ UNCHANGED <<code, target, text, needAnotherPass, i, run, replaced,
                   firstPass, result1>>

\* the loop ends: return text
Return ==
    /\ pc = "scanning"
    /\ ~needAnotherPass
    /\ pc' = "done"
    /\ result1' = IF run = 1 THEN text ELSE result1
    /\ UNCHANGED <<code, target, text, needAnotherPass, i, run, replaced,
                   firstPass>>

\* the caller runs upgrade on what upgrade returned, same target
UpgradeAgain ==
    /\ pc = "done"
    /\ run = 1
    /\ run' = 2
    /\ text' = result1
    /\ needAnotherPass' = TRUE
    /\ i' = 0
    /\ pc' = "scanning"
    /\ replaced' = 0
    /\ firstPass' = 0
    /\ UNCHANGED <<code, target, result1>>

Next == Pass \/ PassThrows \/ Return \/ UpgradeAgain

Spec == Init /\ [][Next]_vars

-----------------------------------------------------------------------------
(* What the properties below are stated with: read off the specification,  *)
(* not off the transformer.                                                *)

RECURSIVE operandsOf(_)
\* e0, e1, ..., en of the left-associated e0 && e1 && ... && en
operandsOf(e) ==
    IF isBinaryExpression(e) /\ e[3] = "&&"
    THEN operandsOf(e[2]) \o <<e[4]>>
    ELSE <<e>>

isAndExpression(e) == isBinaryExpression(e) /\ e[3] = "&&"

isPrivateAccess(e) ==
    isPropertyAccessExpression(e) /\ isPrivateIdentifier(e[3])

\* every operand after the first is an access on the text of the one before
Continuous(os) ==
    \A j \in 2..Len(os) :
        /\ isChainableExpression(os[j])
        /\ getText(os[j][2]) = getText(os[j - 1])

RECURSIVE HasPrivateName(_)
RECURSIVE HasPrivateNameInList(_)
\* some member name in `e` is private
HasPrivateName(e) ==
    CASE isPrivateIdentifier(e) -> TRUE
      [] kind(e) \in {"ParenthesizedExpression", "VoidExpression"} ->
            HasPrivateName(e[2])
      [] kind(e) \in {"PropertyAccessExpression", "ElementAccessExpression"} ->
            HasPrivateName(e[2]) \/ HasPrivateName(e[3])
      [] isCallExpression(e) ->
            HasPrivateName(e[2]) \/ HasPrivateNameInList(e[3])
      [] isBinaryExpression(e) -> HasPrivateName(e[2]) \/ HasPrivateName(e[4])
      [] isConditionalExpression(e) ->
            HasPrivateName(e[2]) \/ HasPrivateName(e[3]) \/ HasPrivateName(e[4])
      [] OTHER -> FALSE

HasPrivateNameInList(es) ==
    IF es = <<>> THEN FALSE
    ELSE HasPrivateName(es[1]) \/ HasPrivateNameInList(Tail(es))

\* the chains of C1: continuous and without a private name
IsGuardChain(e) ==
    /\ isAndExpression(e)
    /\ Continuous(operandsOf(e))
    /\ ~HasPrivateName(e)

RECURSIVE SugarNodes(_)
RECURSIVE SugarNodesOfList(_)
\* the number of && and ternary nodes of a program
SugarNodes(e) ==
    CASE kind(e) \in {"ParenthesizedExpression", "VoidExpression"} ->
            SugarNodes(e[2])
      [] kind(e) \in {"PropertyAccessExpression", "ElementAccessExpression"} ->
            SugarNodes(e[2]) + SugarNodes(e[3])
      [] isCallExpression(e) -> SugarNodes(e[2]) + SugarNodesOfList(e[3])
      [] isBinaryExpression(e) ->
            (IF e[3] = "&&" THEN 1 ELSE 0) + SugarNodes(e[2]) + SugarNodes(e[4])
      [] isConditionalExpression(e) ->
            1 + SugarNodes(e[2]) + SugarNodes(e[3]) + SugarNodes(e[4])
      [] OTHER -> 0

SugarNodesOfList(es) ==
    IF es = <<>> THEN 0
    ELSE SugarNodes(es[1]) + SugarNodesOfList(Tail(es))

RECURSIVE IsOptionalChainOf(_, _, _)
\* `node` is os[1] followed by one ?. link per os[2..j], each of the kind of
\* its operand, with its member name, and with its index or arguments when
\* these hold nothing to rewrite
IsOptionalChainOf(node, os, j) ==
    IF j = 1 THEN getText(node) = getText(os[1])
    ELSE /\ kind(node) = kind(os[j])
         /\ node[4] = TRUE
         /\ isPropertyAccessExpression(node) => node[3] = os[j][3]
         /\ (isElementAccessExpression(node) /\ SugarNodes(os[j][3]) = 0)
                => node[3] = os[j][3]
         /\ (isCallExpression(node) /\ SugarNodesOfList(os[j][3]) = 0)
                => node[3] = os[j][3]
         /\ IsOptionalChainOf(node[2], os, j - 1)

\* the literals a nullish guard compares against with `op`
IsNullishLiteralFor(op, lit) ==
    \/ op \in {"==", "!="} /\ kind(lit) = "NullKeyword"
    \/ /\ op \in {"===", "!=="}
       /\ \/ kind(lit) = "NullKeyword"
          \/ kind(lit) = "UndefinedKeyword"
          \/ lit = Identifier("undefined")
          \/ isVoidExpression(lit)

\* the subjects of a single comparison, the subject on either side
ComparisonSubjects(e) ==
    IF ~isBinaryExpression(e) THEN {}
    ELSE {sub \in {skipParens(e[2]), skipParens(e[4])} :
            \/ sub = skipParens(e[2]) /\ IsNullishLiteralFor(e[3], skipParens(e[4]))
            \/ sub = skipParens(e[4]) /\ IsNullishLiteralFor(e[3], skipParens(e[2]))}

\* the subjects of a guard: of a comparison, or of L || R, L && R whose sides
\* (parentheses stripped) are comparisons on textually equal subjects
GuardSubjects(e) ==
    IF ~isBinaryExpression(e) THEN {}
    ELSE IF e[3] \in {"||", "&&"}
    THEN {sub \in ComparisonSubjects(skipParens(e[2])) :
            \E other \in ComparisonSubjects(skipParens(e[4])) :
                getText(sub) = getText(other)}
    ELSE ComparisonSubjects(e)

\* a subject that is a value being tested, not itself one of the literals
IsLiteral(e) ==
    \/ kind(e) \in {"NullKeyword", "NumericLiteral", "StringLiteral"}
    \/ e = Identifier("undefined")
    \/ isVoidExpression(e)

\* which branch the top-level operator of the (stripped) condition guards
GuardedSide(cond) ==
    LET c == skipParens(cond[2])
    IN IF ~isBinaryExpression(c) THEN "none"
       ELSE CASE c[3] \in {"==", "===", "||"} -> "whenFalse"
              [] c[3] \in {"!=", "!==", "&&"} -> "whenTrue"
              [] OTHER -> "none"

GuardedBranch(cond) == IF GuardedSide(cond) = "whenTrue" THEN cond[3] ELSE cond[4]
OtherBranch(cond) == IF GuardedSide(cond) = "whenTrue" THEN cond[4] ELSE cond[3]

\* the classifier of 4.2 as the transformer runs it on a condition
classifier(e) ==
    orElse(isNullableEqualityExpression(e),
           isBinaryNullableEqualityOrNotExpression(e))

\* JavaScript values, as far as the guards tell them apart
Values == {"null", "undefined", "zero", "object"}
Environments == [{"a", "b"} -> Values]

Truthy(v) == v \notin {"null", "undefined", "zero", "false", "NaN"}
Nullish(v) == v \in {"null", "undefined"}
LooseEquals(u, v) ==
    u = v \/ (Nullish(u) /\ Nullish(v)) \/ {u, v} = {"zero", "false"}
Boolean(p) == IF p THEN "true" ELSE "false"

RECURSIVE Eval(_, _)
\* the value of an expression of identifiers, literals, comparisons,
\* logical operators and ternaries
Eval(e, env) ==
    CASE isIdentifier(e) ->
            IF e[2] = "undefined" THEN "undefined" ELSE env[e[2]]
      [] kind(e) = "NullKeyword" -> "null"
      [] kind(e) = "NumericLiteral" -> "zero"
      [] isVoidExpression(e) -> "undefined"
      [] isParenthesizedExpression(e) -> Eval(e[2], env)
      [] isConditionalExpression(e) ->
            IF Truthy(Eval(e[2], env)) THEN Eval(e[3], env) ELSE Eval(e[4], env)
      [] isBinaryExpression(e) ->
            LET l == Eval(e[2], env)
                r == Eval(e[4], env)
            IN CASE e[3] = "==" -> Boolean(LooseEquals(l, r))
                 [] e[3] = "!=" -> Boolean(~LooseEquals(l, r))
                 [] e[3] = "===" -> Boolean(l = r)
                 [] e[3] = "!==" -> Boolean(l # r)
                 [] e[3] = "||" -> IF Truthy(l) THEN l ELSE r
                 [] e[3] = "&&" -> IF Truthy(l) THEN r ELSE l
                 [] e[3] = "??" -> IF Nullish(l) THEN r ELSE l
                 [] OTHER -> "NaN"
      [] OTHER -> "NaN"

-----------------------------------------------------------------------------
(* The properties *)

\* the first call's document once a pass has made its changes
AfterAPass == run = 1 /\ i >= 1

(* C1: a continuous && chain e0 && e1 && ... && en without a private name  *)
(* is replaced, by the one replacement of the first pass, by the optional  *)
(* chain on e0 with one ?. link per e1..en, in order and of the same kind; *)
(* the run does not throw.                                                 *)
C1_WholeChainInOneRewrite ==
    (run = 1 /\ IsGuardChain(code)) =>
        /\ pc # "thrown"
        /\ i >= 1 =>
             /\ firstPass = 1
             /\ IsOptionalChainOf(text, operandsOf(code), Len(operandsOf(code)))

\* a && a.b && a.b["c"] && a.b["c"]() has become a?.b?.["c"]?.() after pass 0
C1_Witness ==
    /\ run = 1
    /\ i = 1
    /\ getText(code) = <<"a", "&&", "a", ".", "b", "&&", "a", ".", "b", "[",
                         "\"c\"", "]", "&&", "a", ".", "b", "[", "\"c\"", "]",
                         "(", ")">>
    /\ getText(text) = <<"a", "?.", "b", "?.[", "\"c\"", "]", "?.(", ")">>

\* the ternaries of C2: the stripped condition is a guard on a subject
IsGuardedTernary(e) ==
    /\ e \in Ternaries
    /\ GuardedSide(e) # "none"
    /\ \E sub \in GuardSubjects(skipParens(e[2])) : ~IsLiteral(sub)

(* C2: a ternary whose condition, parentheses stripped, is a nullish guard *)
(* on x becomes x ?? f (f the branch that is not guarded) when the guarded *)
(* branch, parentheses stripped, has the text of x, and stays as it is     *)
(* when the guarded branch differs from x.                                 *)
C2_GuardedTernaryRewritten ==
    (AfterAPass /\ target >= TypeScriptVersion.v3_7 /\ IsGuardedTernary(code)) =>
        \A sub \in GuardSubjects(skipParens(code[2])) :
            ~IsLiteral(sub) =>
                IF getText(skipParens(GuardedBranch(code))) = getText(sub)
                THEN text = BinaryExpression(sub, "??", OtherBranch(code))
                ELSE text = code

\* the chains of C3: one of the links has a private name
HasPrivateLink(e) ==
    /\ isAndExpression(e)
    /\ \E j \in 2..Len(operandsOf(e)) : isPrivateAccess(operandsOf(e)[j])

(* C3: an && chain with a private-named member access among its links is   *)
(* never rewritten as a chain and the run never throws: in every pass the  *)
(* document is still an && expression with the private access an operand.  *)
C3_PrivateChainUntouched ==
    (run = 1 /\ HasPrivateLink(code)) =>
        /\ pc # "thrown"
        /\ HasPrivateLink(text)

(* C4: below TypeScript 3.7 neither rule fires: the document stays the     *)
(* given code and the driver is done after exactly one pass (stated on the *)
(* programs without a private name, where no cast can throw).              *)
C4_VersionGate ==
    (run = 1 /\ target < TypeScriptVersion.v3_7 /\ ~HasPrivateName(code)) =>
        /\ pc # "thrown"
        /\ text = code
        /\ firstPass = 0
        /\ pc = "done" => i = 1

(* C5: upgrade is idempotent: run on what it returned, with the same       *)
(* target, it makes no replacement in its first pass, which is its only    *)
(* pass, and returns its input.                                            *)
C5_Idempotent ==
    run = 2 =>
        /\ pc # "thrown"
        /\ text = result1
        /\ i >= 1 => (firstPass = 0 /\ replaced = 0)
        /\ pc = "done" => i = 1

\* the second call has returned, after a first call that rewrote its input
C5_Witness == run = 2 /\ pc = "done" /\ i = 1 /\ result1 # code

(* C6: for every input the run reaches Done: it never ends by throwing, a  *)
(* further pass is started exactly when the pass before made a replacement,*)
(* Done is reached after a pass without one, and the number of passes is   *)
(* at most the number of && and ternary nodes of the input plus one.       *)
C6_ReachesDone ==
    /\ pc # "thrown"
    /\ i >= 1 => (needAnotherPass <=> replaced > 0)
    /\ pc = "done" => replaced = 0
    /\ run = 1 => i <= SugarNodes(code) + 1

(* C7: a rewritten ternary and the x ?? f that replaces it have the same   *)
(* value, whatever the values of their identifiers.                        *)
C7_SameValue ==
    (AfterAPass /\ i = 1 /\ code \in Ternaries /\ isBinaryExpression(text)
        /\ text[3] = "??") =>
        \A env \in Environments : Eval(code, env) = Eval(text, env)

(* C8: the classifier yields a subject for a binary expression exactly     *)
(* when the expression is one of the comparisons against null, undefined   *)
(* or void e (the subject on either side), or L || R, L && R whose sides,  *)
(* each possibly in parentheses, are such comparisons on textually equal   *)
(* subjects; the subject it yields is one of those.                        *)
C8_ClassifierExact ==
    (isConditionalExpression(code) /\ isBinaryExpression(skipParens(code[2]))) =>
        LET e == skipParens(code[2])
        IN /\ classifier(e) # undefined <=> GuardSubjects(e) # {}
           /\ classifier(e) # undefined => classifier(e) \in GuardSubjects(e)

(* C9: a ternary whose condition is not a nullish guard is never rewritten *)
(* to a ?? expression: it is left as it is.                                *)
C9_OnlyGuardsRewritten ==
    (run = 1 /\ code \in Ternaries
        /\ GuardSubjects(skipParens(code[2])) = {}) => text = code

(* C10: a pass never replaces an && expression by an optional chain when   *)
(* some operand of it is not an access on the text of the operand before   *)
(* it (x && a.b, a?.b && c.d): the expression is still an && expression    *)
(* after the pass, no operand dropped.                                     *)
C10_NoOperandDropped ==
    [][(pc = "scanning" /\ isAndExpression(text)
            /\ ~Continuous(operandsOf(text)))
        => isAndExpression(text')]_vars

=============================================================================
